---- MODULE Spec2Model ----
(***************************************************************************)
(* TelegramReminder.py: the reminder store (the module-level list          *)
(* `reminders`, the counter `next_id`, reminders.json and its temp file),  *)
(* the /add, /list and /delete handlers with their await points, the       *)
(* prefix split of an /add command, and Telegram's side of a scheduled     *)
(* message.                                                                *)
(*                                                                         *)
(* A JSON object is a record whose DOMAIN is the set of its keys plus the  *)
(* annotation `wrong`: the keys whose value has the wrong JSON type (an id *)
(* that is no number, a time that is no ISO string).  A JSON value that is *)
(* no object is the record [nondict |-> TRUE].                             *)
(***************************************************************************)
EXTENDS Integers, Sequences, FiniteSets, TLC

VARIABLES
    proc,        \* "up" | "down" (not started) | "fatal" (the module load raised)
    reminders,   \* the module-level list `reminders`
    next_id,     \* the module-level counter `next_id`
    disk,        \* content of reminders.json
    tmp,         \* state of reminders.tmp: "absent" | "partial" | "complete"
    now,         \* the wall clock, in seconds
    hs,          \* one record per handler coroutine: its position and live locals
    replied,     \* what the last step let the user see: the ev.reply it sent, if
                 \* any, and how its save_reminders call went, if it made one
    tg,          \* Telegram: the scheduled messages not yet sent or cancelled
    msg_seq,     \* Telegram: the id the next scheduled message gets
    delivered,   \* Telegram: ids of the scheduled messages it has sent
    issued,      \* ids returned by schedule_reminder in this process run, in order
    assigned,    \* ids returned by schedule_reminder in any process run so far
    dirs,        \* number of tgrem_media_ temp directories on disk
    splitIn,     \* SplitSpec: the command tail under test
    splitOut,    \* SplitSpec: what the prefix loop returned for it
    parseIn,     \* ParseSpec: the text handed to parse_dt
    parseOut     \* ParseSpec: what parse_dt returned for it

vars == <<proc, reminders, next_id, disk, tmp, now, hs, replied, tg, msg_seq, delivered,
          issued, assigned, dirs, splitIn, splitOut, parseIn, parseOut>>

----------------------------------------------------------------------------
(* Bounds of the model *)

NumHandlers == 2     \* handler coroutines that can be in flight together
MaxNow == 10         \* the clock stops here
TickStep == 10       \* seconds between two observations of the clock
MaxTokens == 5       \* SplitSpec: longest command tail
MaxFileLen == 2      \* LoadSpec: most items in the file
MaxDirs == 2         \* MediaSpec: most temp directories on disk

(* Program constants *)

MinScheduleDelay == 10    \* min_schedule_delay = timedelta(seconds=10)

Handlers == 1..NumHandlers
MsgIds == {1, 2}              \* the ids Telegram gives scheduled messages: two in all
Chats == {1}
SenderId == 7
DueChoices == {10, 15}    \* instants a command's time expression can denote
None == -1                    \* Python's None where a number is expected

Fields == {"id", "chat_id", "scheduled_id", "time", "caption", "user_id"}

Range(s) == {s[i] : i \in 1..Len(s)}

RemoveAt(s, i) == [j \in 1..(Len(s) - 1) |-> IF j < i THEN s[j] ELSE s[j + 1]]

----------------------------------------------------------------------------
(* Records *)

\* datetime.isoformat() of an aware UTC datetime: the instant with its offset
IsoFormat(when) == [utc |-> when, offset |-> "+00:00"]

\* datetime.fromisoformat(): the aware datetime, compared as an instant
FromIsoFormat(s) == s.utc

\* mutant: the dict appended before its last keys are set
NewReminder_Partial(id, chat, sched, when, caption, user) ==
    [id |-> id, chat_id |-> chat, scheduled_id |-> sched, time |-> IsoFormat(when),
     wrong |-> {}]

\* the dict schedule_reminder builds
NewReminder(id, chat, sched, when, caption, user) ==
    [id |-> id, chat_id |-> chat, scheduled_id |-> sched, time |-> IsoFormat(when),
     caption |-> caption, user_id |-> user, wrong |-> {}]

\* isinstance(r, dict)
IsDict(r) == "nondict" \notin DOMAIN r

\* 'k' in r
Has(r, k) == IsDict(r) /\ k \in DOMAIN r

\* r.get("id") == rid, for an integer rid
IdIs(r, rid) == Has(r, "id") /\ "id" \notin r.wrong /\ r.id = rid

IdsOf(s) == {s[i].id : i \in {j \in 1..Len(s) : Has(s[j], "id") /\ "id" \notin s[j].wrong}}

----------------------------------------------------------------------------
(* Storage: the load at import time, and save_reminders *)

AbsentFile == [kind |-> "absent", items |-> <<>>]
ListFile(items) == [kind |-> "list", items |-> items]
PartialFile == [kind |-> "partial", items |-> <<>>]     \* truncated JSON text
NotListFile == [kind |-> "notlist", items |-> <<>>]     \* valid JSON, not a list

\* valid_items = [r for r in loaded_data if isinstance(r, dict) and 'id' in r]
LoadFilter(r) == IsDict(r) /\ "id" \in DOMAIN r

\* what the import-time block leaves in `reminders`
LoadItems(file) ==
    IF file.kind = "list" THEN SelectSeq(file.items, LoadFilter) ELSE <<>>

MaxOf(S) == IF S = {} THEN 0 ELSE CHOOSE m \in S : \A x \in S : x <= m

\* max([r.get("id", 0) for r in reminders], default=0) + 1 raises TypeError
\* when an id is no number (max over mixed types, or str/None + 1)
NextIdRaises(items) == \E i \in 1..Len(items) : "id" \in items[i].wrong

\* mutant: the counter seeded from the number of records
NextIdOf_Count(items) == Len(items) + 1

NextIdOf(items) == MaxOf({items[i].id : i \in 1..Len(items)}) + 1

\* mutant: a key misspelt in the filter
SaveFilter_Misspelt(r) ==
    IsDict(r) /\ "id" \in DOMAIN r /\ "chat_id" \in DOMAIN r /\ "schedule_id" \in DOMAIN r

\* valid_reminders = [r for r in reminders if isinstance(r, dict) and "id" in r
\*                    and "chat_id" in r and "scheduled_id" in r]
SaveFilter(r) ==
    IsDict(r) /\ "id" \in DOMAIN r /\ "chat_id" \in DOMAIN r /\ "scheduled_id" \in DOMAIN r

\* the list json.dump writes; json.loads reads back the same list
ValidReminders(rems) == SelectSeq(rems, SaveFilter)

\* how a call of save_reminders can go: to its end; an exception anywhere in
\* its try block (caught, the temp file unlinked); the process killed during the
\* temp write; the process killed between the temp write and the rename
SaveOutcomes == {"ok", "error", "crash_write", "crash_move"}

SaveCrashes(o) == o \in {"crash_write", "crash_move"}

\* mutant: the list dumped straight into reminders.json, no temp file
DiskAfterSave_InPlace(o, old, rems) ==
    CASE o = "ok" -> ListFile(ValidReminders(rems))
      [] o \in {"error", "crash_write"} -> PartialFile
      [] OTHER -> old

\* reminders.json after save_reminders ran to outcome o
DiskAfterSave(o, old, rems) ==
    IF o = "ok" THEN ListFile(ValidReminders(rems)) ELSE old

\* reminders.tmp after save_reminders ran to outcome o
TmpAfterSave(o) ==
    CASE o = "crash_write" -> "partial"
      [] o = "crash_move" -> "complete"
      [] OTHER -> "absent"

----------------------------------------------------------------------------
(* The command split of add_handler *)

\* for i in range(1, len(tokens) + 1): the first i whose prefix parse_dt accepts
\* (`break`), 0 when the loop runs out.  acc is the set of prefix lengths that
\* parse_dt accepts for this tail.
RECURSIVE SplitLoop(_, _, _)
SplitLoop(i, n, acc) ==
    IF i > n THEN 0
    ELSE IF i \in acc THEN i
    ELSE SplitLoop(i + 1, n, acc)

Split(n, acc) == SplitLoop(1, n, acc)

\* caption = " ".join(tokens[i:]): the tokens after the prefix, by position
CaptionOf(n, k) == [j \in 1..(n - k) |-> k + j]

----------------------------------------------------------------------------
(* parse_dt *)

\* A text, by what dateutil makes of it: ok (no ParserError), the calendar day
\* and the time of day of the datetime it returns (00:00 when the text states no
\* time of day), aware and off (the text names a UTC offset, in minutes), and
\* whether TIME_RE finds H:MM in the text.  season picks the part of the year.
DayMinutes == 1440
Seasons == {"winter", "summer"}
TextHours == {0, 9, 23}
TextMinutes == {0, 30}
TextOffsets == {0, 120}

\* ZoneInfo("Europe/Amsterdam"): UTC+1 in winter, UTC+2 in summer, in minutes
TzOffset(season) == IF season = "winter" THEN 60 ELSE 120

\* default_time_hour = 9
DefaultTimeHour == 9

NoText ==
    [ok |-> FALSE, season |-> "winter", day |-> 1, hour |-> 0, minute |-> 0,
     statesTime |-> FALSE, hasHMM |-> FALSE, aware |-> FALSE, off |-> 0]

\* a datetime as minutes since the start of day 0 of its season, in some zone
WallMinutes(text) == text.day * DayMinutes + text.hour * 60 + text.minute

NoneDt == [ok |-> FALSE, season |-> "winter", utc |-> 0, defaulted |-> FALSE]

\* dt_local for a text without offset: TZ.localize(dt_naive).  ZoneInfo has no
\* `localize`: AttributeError, caught by `except Exception`, parse_dt returns None
Localize(text) == [ok |-> FALSE, local |-> 0]

\* dt_local for a text with an offset: dt_naive.astimezone(TZ)
AsTimezone(text) ==
    [ok |-> TRUE, local |-> WallMinutes(text) - text.off + TzOffset(text.season)]

\* dt_local.hour == 0 and dt_local.minute == 0 and dt_local.second == 0
\* and not TIME_RE.search(text)
TakesDefault(local, text) == local % DayMinutes = 0 /\ ~text.hasHMM

\* dt_local.replace(hour=default_time_hour, minute=0, second=0, microsecond=0)
ReplaceTime(local) == (local \div DayMinutes) * DayMinutes + DefaultTimeHour * 60

\* parse_dt(text): the UTC instant, with `defaulted` telling whether the default
\* time of day was put in, or None
ParseDt(text) ==
    IF ~text.ok THEN NoneDt
    ELSE LET loc == IF text.aware THEN AsTimezone(text) ELSE Localize(text)
         IN  IF ~loc.ok THEN NoneDt
             ELSE LET def == TakesDefault(loc.local, text)
                      fin == IF def THEN ReplaceTime(loc.local) ELSE loc.local
                  IN  [ok |-> TRUE, season |-> text.season,
                       utc |-> fin - TzOffset(text.season), defaulted |-> def]

NotParsed == [done |-> FALSE, res |-> NoneDt]

----------------------------------------------------------------------------
(* Handler coroutines *)

NoReply == [kind |-> "none", id |-> None, ids |-> <<>>, save |-> "none"]
Reply(kind, id) == [kind |-> kind, id |-> id, ids |-> <<>>, save |-> "none"]
ReplySaved(kind, id, o) == [kind |-> kind, id |-> id, ids |-> <<>>, save |-> o]

Idle ==
    [pc |-> "idle", chat |-> 0, when |-> None, tz |-> "none", caption |-> <<>>,
     rid |-> None, idx |-> 0, sched |-> None, tmp_dir |-> FALSE]

\* A value handed to schedule_reminder as `when`: kind "utc" (a datetime whose
\* tzinfo is timezone.utc), "aware" (a datetime with another tzinfo), "naive" (a
\* datetime without tzinfo) or "nodt" (no datetime); t is its instant.
WhenKinds == {"utc", "aware", "naive", "nodt"}

\* what parse_dt returns: dt_local.astimezone(timezone.utc)
UtcWhen(t) == [kind |-> "utc", t |-> t]

\* mutant: any aware datetime let through
IsUtcDatetime_AnyAware(w) == w.kind \in {"utc", "aware"}

\* not (not isinstance(when, datetime) or when.tzinfo != timezone.utc)
IsUtcDatetime(w) == w.kind = "utc"

\* the command tails an /add request of the main model carries: token count and
\* the prefix lengths parse_dt accepts
AddTails == {[n |-> 0, acc |-> {}], [n |-> 1, acc |-> {}], [n |-> 2, acc |-> {1}]}

\* ALLOWED_CHATS left blank: every chat may command
AllowedChats == {}

IsAllowed(chat) == AllowedChats = {} \/ chat \in AllowedChats

\* mutant: `<` for `<=`
IsPast_Strict(parsed, t) == parsed < t

\* if parsed_dt_utc <= now: "in the past"
IsPast(parsed, t) == parsed <= t

\* if when <= now + min_schedule_delay: when = now + min_schedule_delay
AdjustWhen(when, t) == IF when <= t + MinScheduleDelay THEN t + MinScheduleDelay ELSE when

\* mutant: the increment left out
BumpId_Forgotten(n) == n

\* next_id += 1
BumpId(n) == n + 1

\* the state a fresh import of the module computes from reminders.json, once
\* the running process is gone
Reimport ==
    /\ reminders' = LoadItems(disk)
    /\ next_id' = NextIdOf(LoadItems(disk))
    /\ hs' = [g \in Handlers |-> Idle]
    /\ issued' = <<>>

Init ==
    /\ proc = "up"
    /\ reminders = <<>>
    /\ next_id = 1
    /\ disk = AbsentFile
    /\ tmp = "absent"
    /\ now = 0
    /\ hs = [h \in Handlers |-> Idle]
    /\ replied = NoReply
    /\ tg = {}
    /\ msg_seq = 1
    /\ delivered = {}
    /\ issued = <<>>
    /\ assigned = {}
    /\ dirs = 0
    /\ splitIn = [n |-> 0, acc |-> {}]
    /\ splitOut = [done |-> FALSE, k |-> 0, caption |-> <<>>]
    /\ parseIn = NoText
    /\ parseOut = NotParsed

\* the add handlers that have yet to ask Telegram for their scheduled message
InFlightAdds == Cardinality({g \in Handlers : hs[g].pc \in {"download", "get_sender", "send"}})

\* add_handler from its start to its first await: tail, split, past check
AddRecv(h, chat, tail, inst) ==
    /\ proc = "up"
    /\ hs[h].pc = "idle"
    /\ msg_seq + InFlightAdds <= Cardinality(MsgIds)
    /\ IsAllowed(chat)
    /\ LET k == Split(tail.n, tail.acc)
       IN  IF tail.n = 0
           THEN replied' = Reply("usage", None) /\ UNCHANGED hs
           ELSE IF k = 0
           THEN replied' = Reply("bad_time", None) /\ UNCHANGED hs
           ELSE IF IsPast(inst, now)
           THEN replied' = Reply("past", inst) /\ UNCHANGED hs
           ELSE IF ~IsUtcDatetime(UtcWhen(inst))
           THEN replied' = Reply("internal", None) /\ UNCHANGED hs
           ELSE /\ hs' = [hs EXCEPT ![h] =
                        [Idle EXCEPT !.pc = "get_sender", !.chat = chat, !.when = inst,
                                     !.tz = UtcWhen(inst).kind,
                                     !.caption = CaptionOf(tail.n, k)]]
                /\ replied' = NoReply
    /\ UNCHANGED <<proc, reminders, next_id, disk, tmp, now, tg, msg_seq, delivered,
                   issued, assigned, dirs, splitIn, splitOut, parseIn, parseOut>>

\* mutant: the cleanup left out
DirsAfterCleanup_Kept(tmp_dir, n) == n

\* if tmp_dir: shutil.rmtree(tmp_dir, ignore_errors=True)
DirsAfterCleanup(tmp_dir, n) == IF tmp_dir THEN n - 1 ELSE n

\* what add_handler makes of a command before it looks at media: the reply it
\* returns with, or "ok"
AddVerdict(tail, inst, t) ==
    IF tail.n = 0 THEN "usage"
    ELSE IF Split(tail.n, tail.acc) = 0 THEN "bad_time"
    ELSE IF IsPast(inst, t) THEN "past"
    ELSE IF ~IsUtcDatetime(UtcWhen(inst)) THEN "internal"
    ELSE "ok"

\* mutant: the media staged before the command is looked at
StagesMedia_Early(verdict, media) == media

\* tempfile.mkdtemp is reached only past the returns of the usage, parse and
\* past checks, and only for a message that comes with media
StagesMedia(verdict, media) == media /\ verdict = "ok"

\* add_handler on a message that carries media (ev.media, or the media of the
\* message it replies to), from its start to `await download_media`: the same
\* checks as AddRecv, then mkdtemp
AddRecvMedia(h, chat, tail, inst) ==
    /\ proc = "up"
    /\ hs[h].pc = "idle"
    /\ msg_seq + InFlightAdds <= Cardinality(MsgIds)
    /\ dirs < MaxDirs
    /\ IsAllowed(chat)
    /\ LET verdict == AddVerdict(tail, inst, now)
       IN  /\ dirs' = IF StagesMedia(verdict, TRUE) THEN dirs + 1 ELSE dirs
           /\ IF verdict # "ok"
              THEN /\ replied' = Reply(verdict, IF verdict = "past" THEN inst ELSE None)
                   /\ UNCHANGED hs
              ELSE /\ hs' = [hs EXCEPT ![h] =
                           [Idle EXCEPT !.pc = "download", !.chat = chat, !.when = inst,
                                        !.tz = UtcWhen(inst).kind, !.tmp_dir = TRUE,
                                        !.caption = CaptionOf(tail.n, Split(tail.n, tail.acc))]]
                   /\ replied' = NoReply
    /\ UNCHANGED <<proc, reminders, next_id, disk, tmp, now, tg, msg_seq, delivered,
                   issued, assigned, splitIn, splitOut, parseIn, parseOut>>

\* add_handler after `await download_media`: with a file (got) it goes on to
\* schedule_reminder; without, it tells the user, removes tmp_dir and goes on
\* with the text alone
AddDownloaded(h, got) ==
    /\ proc = "up"
    /\ hs[h].pc = "download"
    /\ IF got
       THEN /\ hs' = [hs EXCEPT ![h].pc = "get_sender"]
            /\ replied' = NoReply
            /\ UNCHANGED dirs
       ELSE /\ hs' = [hs EXCEPT ![h].pc = "get_sender", ![h].tmp_dir = FALSE]
            /\ replied' = Reply("no_media", None)
            /\ dirs' = DirsAfterCleanup(hs[h].tmp_dir, dirs)
    /\ UNCHANGED <<proc, reminders, next_id, disk, tmp, now, tg, msg_seq, delivered,
                   issued, assigned, splitIn, splitOut, parseIn, parseOut>>

\* schedule_reminder called with the value w, from its start to
\* `await ev.get_sender()`: the check of `when`
SchedCall(h, chat, w) ==
    /\ proc = "up"
    /\ hs[h].pc = "idle"
    /\ msg_seq + InFlightAdds <= Cardinality(MsgIds)
    /\ IF ~IsUtcDatetime(w)
       THEN replied' = Reply("internal", None) /\ UNCHANGED hs
       ELSE /\ hs' = [hs EXCEPT ![h] =
                    [Idle EXCEPT !.pc = "get_sender", !.chat = chat, !.when = w.t,
                                 !.tz = w.kind]]
            /\ replied' = NoReply
    /\ UNCHANGED <<proc, reminders, next_id, disk, tmp, now, tg, msg_seq, delivered,
                   issued, assigned, dirs, splitIn, splitOut, parseIn, parseOut>>

\* schedule_reminder after `await ev.get_sender()`: read the clock (an aware UTC
\* datetime), adjust `when`, start the send
AddGotSender(h) ==
    /\ proc = "up"
    /\ hs[h].pc = "get_sender"
    /\ hs' = [hs EXCEPT ![h].when = AdjustWhen(hs[h].when, now), ![h].pc = "send",
                        ![h].tz = IF AdjustWhen(hs[h].when, now) = hs[h].when
                                  THEN hs[h].tz ELSE "utc"]
    /\ replied' = NoReply
    /\ UNCHANGED <<proc, reminders, next_id, disk, tmp, now, tg, msg_seq, delivered,
                   issued, assigned, dirs, splitIn, splitOut, parseIn, parseOut>>

\* the exceptions client.send_message or client.send_file can raise: one that a
\* later call could get past (flood wait, network) or one that it could not
SendErrors == {"transient", "permanent"}

\* mutant: the counter advanced before the send
NextIdAfterSend_Always(n, sent) == BumpId(n)

\* next_id after schedule_reminder: `next_id += 1` is past the `return None` of
\* the except block, so it runs only when the send did not raise
NextIdAfterSend(n, sent) == IF sent THEN BumpId(n) ELSE n

\* the send raised e (`except Exception`: whatever e is): reply the failure,
\* return None; add_handler removes tmp_dir
AddSendFailed(h, e) ==
    /\ proc = "up"
    /\ hs[h].pc = "send"
    /\ e \in SendErrors
    /\ hs' = [hs EXCEPT ![h] = Idle]
    /\ next_id' = NextIdAfterSend(next_id, FALSE)
    /\ dirs' = DirsAfterCleanup(hs[h].tmp_dir, dirs)
    /\ replied' = Reply("send_failed", None)
    /\ UNCHANGED <<proc, reminders, disk, tmp, now, tg, msg_seq, delivered,
                   issued, assigned, splitIn, splitOut, parseIn, parseOut>>

\* Telegram took the scheduled message; schedule_reminder stores the record
\* (current_id = next_id, append, save_reminders, next_id += 1) and add_handler
\* sends the confirmation.  o is how save_reminders went.
AddSent(h, o) ==
    /\ proc = "up"
    /\ hs[h].pc = "send"
    /\ LET me == hs[h]
           current_id == next_id
           reminder == NewReminder(current_id, me.chat, msg_seq, me.when, me.caption, SenderId)
           appended == Append(reminders, reminder)
       IN  /\ tg' = tg \cup {[id |-> msg_seq, time |-> me.when]}
           /\ msg_seq' = msg_seq + 1
           /\ disk' = DiskAfterSave(o, disk, appended)
           /\ tmp' = TmpAfterSave(o)
           /\ UNCHANGED proc
           /\ IF SaveCrashes(o)
              THEN /\ Reimport
                   /\ replied' = ReplySaved("none", None, o)
                   /\ UNCHANGED <<assigned, dirs>>
              ELSE /\ reminders' = appended
                   /\ dirs' = DirsAfterCleanup(me.tmp_dir, dirs)
                   /\ next_id' = NextIdAfterSend(next_id, TRUE)
                   /\ issued' = Append(issued, current_id)
                   /\ assigned' = assigned \cup {current_id}
                   /\ hs' = [hs EXCEPT ![h] = Idle]
                   /\ replied' = ReplySaved("scheduled", current_id, o)
    /\ UNCHANGED <<now, delivered, splitIn, splitOut, parseIn, parseOut>>

\* mutant: `>=` for `>`
IsUpcoming_Inclusive(r, t) ==
    /\ Has(r, "time")
    /\ Has(r, "id")
    /\ "time" \notin r.wrong
    /\ FromIsoFormat(r.time) >= t

\* list_handler's filter: a dict with "time" and "id" whose time parses and is
\* later than now
IsUpcoming(r, t) ==
    /\ Has(r, "time")
    /\ Has(r, "id")
    /\ "time" \notin r.wrong
    /\ FromIsoFormat(r.time) > t

\* sorted(valid_reminders, key=time): a stable sort, by insertion
RECURSIVE InsertByTime(_, _)
InsertByTime(r, s) ==
    IF s = <<>> THEN <<r>>
    ELSE IF FromIsoFormat(r.time) < FromIsoFormat(Head(s).time) THEN <<r>> \o s
    ELSE <<Head(s)>> \o InsertByTime(r, Tail(s))

RECURSIVE SortedByTime(_)
SortedByTime(s) ==
    IF s = <<>> THEN <<>>
    ELSE InsertByTime(s[Len(s)], SortedByTime(SubSeq(s, 1, Len(s) - 1)))

ActiveReminders(rems, t) ==
    SortedByTime(SelectSeq(rems, LAMBDA r : IsUpcoming(r, t)))

\* list_handler: no await between reading `reminders` and building the reply
ListRecv(h, chat) ==
    /\ proc = "up"
    /\ hs[h].pc = "idle"
    /\ IsAllowed(chat)
    /\ LET active == ActiveReminders(reminders, now)
       IN  replied' = IF active = <<>> THEN Reply("no_upcoming", None)
                      ELSE [kind |-> "list", id |-> None, save |-> "none",
                            ids |-> [i \in 1..Len(active) |-> active[i].id]]
    /\ UNCHANGED <<proc, reminders, next_id, disk, tmp, now, hs, tg, msg_seq, delivered,
                   issued, assigned, dirs, splitIn, splitOut, parseIn, parseOut>>

\* mutant: reminder_index = -1 used as a position when nothing was found
FindIndex_LastOnMiss(rems, rid) ==
    IF \E i \in 1..Len(rems) : IdIs(rems[i], rid)
    THEN CHOOSE i \in 1..Len(rems) :
             IdIs(rems[i], rid) /\ \A j \in 1..(i - 1) : ~IdIs(rems[j], rid)
    ELSE Len(rems)

\* for i, r in enumerate(reminders): the first position whose id is rid, 0 if none
FindIndex(rems, rid) ==
    IF \E i \in 1..Len(rems) : IdIs(rems[i], rid)
    THEN CHOOSE i \in 1..Len(rems) :
             IdIs(rems[i], rid) /\ \A j \in 1..(i - 1) : ~IdIs(rems[j], rid)
    ELSE 0

\* r.get("scheduled_id") and r.get("chat_id") are both truthy
HasSchedule(r) ==
    /\ Has(r, "scheduled_id") /\ r.scheduled_id # 0
    /\ Has(r, "chat_id") /\ r.chat_id # 0

\* delete_handler from its start to `await client.delete_scheduled_messages`:
\* the lookup of the record and of its position.  A record without a scheduled
\* message is removed at once (o is how save_reminders went).
DelRecv(h, chat, rid, o) ==
    /\ proc = "up"
    /\ hs[h].pc = "idle"
    /\ IsAllowed(chat)
    /\ LET idx == FindIndex(reminders, rid)
       IN  IF idx = 0
           THEN /\ o = "ok"
                /\ replied' = Reply("not_found", rid)
                /\ UNCHANGED <<proc, reminders, disk, tmp, hs, next_id, issued>>
           ELSE IF HasSchedule(reminders[idx])
           THEN /\ o = "ok"
                /\ hs' = [hs EXCEPT ![h] =
                        [Idle EXCEPT !.pc = "cancel", !.chat = chat, !.rid = rid,
                                     !.idx = idx, !.sched = reminders[idx].scheduled_id]]
                /\ replied' = NoReply
                /\ UNCHANGED <<proc, reminders, disk, tmp, next_id, issued>>
           ELSE LET rest == RemoveAt(reminders, idx)
                IN  /\ disk' = DiskAfterSave(o, disk, rest)
                    /\ tmp' = TmpAfterSave(o)
                    /\ UNCHANGED proc
                    /\ IF SaveCrashes(o)
                       THEN Reimport /\ replied' = ReplySaved("none", None, o)
                       ELSE /\ reminders' = rest
                            /\ replied' = ReplySaved("deleted", rid, o)
                            /\ UNCHANGED <<hs, next_id, issued>>
    /\ UNCHANGED <<now, tg, msg_seq, delivered, assigned, dirs, splitIn, splitOut, parseIn, parseOut>>

\* delete_handler after the await: Telegram cancelled the message (cancelled) or
\* the call raised (logged, ignored); then `del reminders[reminder_index]`,
\* save_reminders and the reply.  A position past the end raises IndexError:
\* the handler ends without saving or replying.
DelStore(h, cancelled, o) ==
    /\ proc = "up"
    /\ hs[h].pc = "cancel"
    /\ LET me == hs[h]
           pos == me.idx    \* reminder_index, as found before the await
       IN  /\ tg' = IF cancelled THEN {m \in tg : m.id # me.sched} ELSE tg
           /\ IF pos < 1 \/ pos > Len(reminders)
              THEN /\ o = "ok"
                   /\ hs' = [hs EXCEPT ![h] = Idle]
                   /\ replied' = Reply("raised", me.rid)
                   /\ UNCHANGED <<proc, reminders, disk, tmp, next_id, issued>>
              ELSE LET rest == RemoveAt(reminders, pos)
                   IN  /\ disk' = DiskAfterSave(o, disk, rest)
                       /\ tmp' = TmpAfterSave(o)
                       /\ UNCHANGED proc
                       /\ IF SaveCrashes(o)
                          THEN Reimport /\ replied' = ReplySaved("none", None, o)
                          ELSE /\ reminders' = rest
                               /\ hs' = [hs EXCEPT ![h] = Idle]
                               /\ replied' = ReplySaved("deleted", me.rid, o)
                               /\ UNCHANGED <<next_id, issued>>
    /\ UNCHANGED <<now, msg_seq, delivered, assigned, dirs, splitIn, splitOut, parseIn, parseOut>>

----------------------------------------------------------------------------
(* The environment: Telegram, the clock, the process *)

\* Telegram sends a scheduled message when it is due.  No code of the program
\* runs on it: the store is not told.
Deliver(m) ==
    /\ m \in tg
    /\ m.time <= now
    /\ tg' = tg \ {m}
    /\ delivered' = delivered \cup {m.id}
    /\ replied' = NoReply
    /\ UNCHANGED <<proc, reminders, next_id, disk, tmp, now, hs, msg_seq, issued,
                   assigned, dirs, splitIn, splitOut, parseIn, parseOut>>

Tick ==
    /\ now + TickStep <= MaxNow
    /\ now' = now + TickStep
    /\ replied' = NoReply
    /\ UNCHANGED <<proc, reminders, next_id, disk, tmp, hs, tg, msg_seq, delivered,
                   issued, assigned, dirs, splitIn, splitOut, parseIn, parseOut>>

\* the process is killed (every coroutine dies with it) and started again: the
\* module is imported, the load block and the next_id computation run
Restart ==
    /\ proc = "up"
    /\ Reimport
    /\ replied' = NoReply
    /\ UNCHANGED <<proc, disk, tmp, now, tg, msg_seq, delivered, assigned, dirs, splitIn, splitOut, parseIn, parseOut>>

Next ==
    \/ \E h \in Handlers, chat \in Chats, tail \in AddTails, inst \in DueChoices :
           AddRecv(h, chat, tail, inst)
    \/ \E h \in Handlers : AddGotSender(h)
    \/ \E h \in Handlers, e \in SendErrors : AddSendFailed(h, e)
    \/ \E h \in Handlers, o \in SaveOutcomes : AddSent(h, o)
    \/ \E h \in Handlers, chat \in Chats : ListRecv(h, chat)
    \/ \E h \in Handlers, chat \in Chats, rid \in MsgIds, o \in SaveOutcomes :
           DelRecv(h, chat, rid, o)
    \/ \E h \in Handlers, cancelled \in BOOLEAN, o \in SaveOutcomes : DelStore(h, cancelled, o)
    \/ \E m \in tg : Deliver(m)
    \/ Tick
    \/ Restart

Spec == Init /\ [][Next]_vars

\* The event loop resumes every coroutine whose awaited call has returned, and
\* Telegram sends every scheduled message that is due.  Requests, clock ticks
\* and restarts come when they come.
FairSpec ==
    /\ Spec
    /\ \A h \in Handlers : WF_vars(AddGotSender(h))
    /\ \A h \in Handlers : WF_vars((\E o \in SaveOutcomes : AddSent(h, o))
                                         \/ (\E e \in SendErrors : AddSendFailed(h, e)))
    /\ \A h \in Handlers :
           WF_vars(\E cancelled \in BOOLEAN, o \in SaveOutcomes : DelStore(h, cancelled, o))
    /\ WF_vars(\E m \in tg : Deliver(m))

----------------------------------------------------------------------------
(* The command split alone: every tail of up to MaxTokens tokens, every set of
   prefixes parse_dt may accept *)

SplitInputs == UNION {{[n |-> n, acc |-> a] : a \in SUBSET (1..n)} : n \in 0..MaxTokens}

SplitInit ==
    /\ proc = "up"
    /\ reminders = <<>>
    /\ next_id = 1
    /\ disk = AbsentFile
    /\ tmp = "absent"
    /\ now = 0
    /\ hs = [h \in Handlers |-> Idle]
    /\ replied = NoReply
    /\ tg = {}
    /\ msg_seq = 1
    /\ delivered = {}
    /\ issued = <<>>
    /\ assigned = {}
    /\ dirs = 0
    /\ splitIn \in SplitInputs
    /\ splitOut = [done |-> FALSE, k |-> 0, caption |-> <<>>]
    /\ parseIn = NoText
    /\ parseOut = NotParsed

\* lines 317-329 of add_handler on the tail splitIn
SplitApply ==
    /\ ~splitOut.done
    /\ LET k == Split(splitIn.n, splitIn.acc)
       IN  splitOut' = [done |-> TRUE, k |-> k,
                        caption |-> IF k = 0 THEN <<>> ELSE CaptionOf(splitIn.n, k)]
    /\ UNCHANGED <<proc, reminders, next_id, disk, tmp, now, hs, replied, tg, msg_seq,
                   delivered, issued, assigned, dirs, splitIn, parseIn, parseOut>>

SplitNext == SplitApply

SplitSpec == SplitInit /\ [][SplitNext]_vars

----------------------------------------------------------------------------
(* parse_dt alone: every text of the shapes above *)

ParseInputs ==
    {NoText} \cup
    {t \in [ok : {TRUE}, season : Seasons, day : {1}, hour : TextHours,
            minute : TextMinutes, statesTime : BOOLEAN, hasHMM : BOOLEAN,
            aware : BOOLEAN, off : TextOffsets] :
        /\ ~t.statesTime => (t.hour = 0 /\ t.minute = 0)
        /\ t.hasHMM => t.statesTime
        /\ ~t.aware => t.off = 0}

ParseInit ==
    /\ proc = "up"
    /\ reminders = <<>>
    /\ next_id = 1
    /\ disk = AbsentFile
    /\ tmp = "absent"
    /\ now = 0
    /\ hs = [h \in Handlers |-> Idle]
    /\ replied = NoReply
    /\ tg = {}
    /\ msg_seq = 1
    /\ delivered = {}
    /\ issued = <<>>
    /\ assigned = {}
    /\ dirs = 0
    /\ splitIn = [n |-> 0, acc |-> {}]
    /\ splitOut = [done |-> FALSE, k |-> 0, caption |-> <<>>]
    /\ parseIn \in ParseInputs
    /\ parseOut = NotParsed

\* temp_dt = parse_dt(potential_date_str)
ParseApply ==
    /\ ~parseOut.done
    /\ parseOut' = [done |-> TRUE, res |-> ParseDt(parseIn)]
    /\ UNCHANGED <<proc, reminders, next_id, disk, tmp, now, hs, replied, tg, msg_seq,
                   delivered, issued, assigned, dirs, splitIn, splitOut, parseIn>>

ParseNext == ParseApply

ParseSpec == ParseInit /\ [][ParseNext]_vars

----------------------------------------------------------------------------
(* schedule_reminder called with any value for `when` *)

SchedNext ==
    \/ \E h \in Handlers, chat \in Chats, kind \in WhenKinds, t \in DueChoices :
           SchedCall(h, chat, [kind |-> kind, t |-> t])
    \/ \E h \in Handlers : AddGotSender(h)
    \/ \E h \in Handlers, e \in SendErrors : AddSendFailed(h, e)
    \/ \E h \in Handlers, o \in SaveOutcomes : AddSent(h, o)
    \/ Tick
    \/ Restart

SchedSpec == Init /\ [][SchedNext]_vars

----------------------------------------------------------------------------
(* The add path with media *)

MediaNext ==
    \/ \E h \in Handlers, chat \in Chats, tail \in AddTails, inst \in DueChoices :
           AddRecv(h, chat, tail, inst)
    \/ \E h \in Handlers, chat \in Chats, tail \in AddTails, inst \in DueChoices :
           AddRecvMedia(h, chat, tail, inst)
    \/ \E h \in Handlers, got \in BOOLEAN : AddDownloaded(h, got)
    \/ \E h \in Handlers : AddGotSender(h)
    \/ \E h \in Handlers, e \in SendErrors : AddSendFailed(h, e)
    \/ \E h \in Handlers, o \in SaveOutcomes : AddSent(h, o)
    \/ Tick
    \/ Restart

MediaSpec == Init /\ [][MediaNext]_vars

----------------------------------------------------------------------------
(* Commands from two chats *)

TwoChats == {1, 2}

ChatNext ==
    \/ \E h \in Handlers, chat \in TwoChats, tail \in AddTails, inst \in DueChoices :
           AddRecv(h, chat, tail, inst)
    \/ \E h \in Handlers : AddGotSender(h)
    \/ \E h \in Handlers, e \in SendErrors : AddSendFailed(h, e)
    \/ \E h \in Handlers, o \in SaveOutcomes : AddSent(h, o)
    \/ \E h \in Handlers, chat \in TwoChats : ListRecv(h, chat)
    \/ Tick

ChatSpec == Init /\ [][ChatNext]_vars

----------------------------------------------------------------------------
(* The store started on an arbitrary reminders.json *)

FileItems ==
    { NewReminder(1, 1, 1, 10, <<>>, SenderId),
      [id |-> 2, time |-> IsoFormat(15), caption |-> <<>>, wrong |-> {}],
      [id |-> 2, chat_id |-> 1, scheduled_id |-> 2, time |-> IsoFormat(0),
       caption |-> <<>>, user_id |-> SenderId, wrong |-> {"time"}],
      [id |-> 0, chat_id |-> 1, scheduled_id |-> 2, time |-> IsoFormat(15),
       caption |-> <<>>, user_id |-> SenderId, wrong |-> {"id"}],
      [chat_id |-> 1, scheduled_id |-> 2, time |-> IsoFormat(15), caption |-> <<>>,
       user_id |-> SenderId, wrong |-> {}],
      [nondict |-> TRUE] }

FileContents ==
    {AbsentFile, PartialFile, NotListFile}
        \cup {ListFile(items) : items \in UNION {[1..n -> FileItems] : n \in 0..MaxFileLen}}

LoadInit ==
    /\ proc = "down"
    /\ reminders = <<>>
    /\ next_id = 1
    /\ disk \in FileContents
    /\ tmp = "absent"
    /\ now = 0
    /\ hs = [h \in Handlers |-> Idle]
    /\ replied = NoReply
    /\ tg = {}
    /\ msg_seq = 1
    /\ delivered = {}
    /\ issued = <<>>
    /\ assigned = {}
    /\ dirs = 0
    /\ splitIn = [n |-> 0, acc |-> {}]
    /\ splitOut = [done |-> FALSE, k |-> 0, caption |-> <<>>]
    /\ parseIn = NoText
    /\ parseOut = NotParsed

\* the import of the module: the load block, then the next_id line, which is
\* outside every try
Startup ==
    /\ proc = "down"
    /\ LET items == LoadItems(disk)
       IN  /\ reminders' = items
           /\ IF NextIdRaises(items)
              THEN proc' = "fatal" /\ UNCHANGED next_id
              ELSE proc' = "up" /\ next_id' = NextIdOf(items)
    /\ UNCHANGED <<disk, tmp, now, hs, replied, tg, msg_seq, delivered, issued,
                   assigned, dirs, splitIn, splitOut, parseIn, parseOut>>

LoadNext ==
    \/ Startup
    \/ \E chat \in Chats, tail \in AddTails, inst \in DueChoices : AddRecv(1, chat, tail, inst)
    \/ AddGotSender(1)
    \/ \E o \in SaveOutcomes : AddSent(1, o)
    \/ \E chat \in Chats, rid \in MsgIds, o \in SaveOutcomes : DelRecv(1, chat, rid, o)
    \/ \E cancelled \in BOOLEAN, o \in SaveOutcomes : DelStore(1, cancelled, o)
    \/ Restart

LoadSpec == LoadInit /\ [][LoadNext]_vars

----------------------------------------------------------------------------
(* Claims *)

\* C1: within one process run, under every interleaving of add and delete
\* handlers, the ids schedule_reminder returns are strictly increasing in the
\* order they are assigned, so none is returned twice.
C1_MonotonicIds == \A i, j \in 1..Len(issued) : i < j => issued[i] < issued[j]

\* two ids were returned, and the first one's record has been deleted since
C1_Witness == Len(issued) = 2 /\ issued[1] \notin IdsOf(reminders)

\* a delete handler h finishes after its await, by a reply or by raising
DelFinishes(h) ==
    /\ hs[h].pc = "cancel"
    /\ hs'[h].pc = "idle"
    /\ replied'.kind \in {"deleted", "raised"}
    /\ replied'.id = hs[h].rid

\* C2: a delete request for id X removes the record with id X and no other
\* record, and never fails on a stale position, whatever ran during its await.
C2_DeleteRemovesOnlyItsRecord ==
    [][\A h \in Handlers :
          DelFinishes(h) =>
              /\ replied'.kind = "deleted"
              /\ \A r \in Range(reminders) :
                     r \notin Range(reminders') => r.id = hs[h].rid]_vars

RECURSIVE ExtendRun(_, _, _)
ExtendRun(i, n, acc) ==
    IF i + 1 <= n /\ (i + 1) \in acc THEN ExtendRun(i + 1, n, acc) ELSE i

\* the longest accepted prefix of the first contiguous run of accepted prefixes
LongestOfFirstRun(n, acc) ==
    IF acc = {} THEN 0
    ELSE ExtendRun(CHOOSE m \in acc : \A x \in acc : m <= x, n, acc)

\* C3: the split takes as time expression the longest accepted prefix of the
\* first contiguous run of accepted prefixes, and the caption is the remaining
\* tokens.
C3_LongestPrefixSplit ==
    splitOut.done =>
        LET k == LongestOfFirstRun(splitIn.n, splitIn.acc)
        IN  /\ splitOut.k = k
            /\ splitOut.caption = IF k = 0 THEN <<>> ELSE CaptionOf(splitIn.n, k)

\* the store holds the record of scheduled message m
InStore(m) ==
    \E i \in 1..Len(reminders) :
        Has(reminders[i], "scheduled_id") /\ reminders[i].scheduled_id = m

\* C4: a stored reminder whose message Telegram has sent is eventually removed
\* from the store.
C4_DeliveredIsRemoved ==
    \A m \in MsgIds : (m \in delivered /\ InStore(m)) ~> ~InStore(m)

\* the step ends a delete request for id x with the reply "deleted"
DeletesId(x) == replied'.kind = "deleted" /\ replied'.id = x

\* C5: a record leaves the in-memory store or the persisted file only through a
\* delete request for it; no failure and no restart removes one.
C5_OnlyDeleteRemoves ==
    [][/\ \A r \in Range(reminders) : r \notin Range(reminders') => DeletesId(r.id)
       /\ \A r \in Range(disk.items) : r \notin Range(disk'.items) => DeletesId(r.id)]_vars

\* add_handler passes its checks: the handler goes on to schedule_reminder
AddAccepted(h) == hs[h].pc = "idle" /\ hs'[h].pc = "get_sender"

\* C6 as stated: an add whose parsed instant is less than the minimum lead time
\* after the current time is rejected.
C6_RejectsWithinLeadTime ==
    [][\A h \in Handlers : AddAccepted(h) => hs'[h].when >= now + MinScheduleDelay]_vars

\* C6 as amended: an add whose parsed instant is not after the current time is
\* rejected with the reply "in the past" and no change to the store, the counter,
\* the file or Telegram; an instant after the current time is accepted, and when
\* it is within the lead time of the clock read in schedule_reminder the message
\* is scheduled for that clock plus the lead time instead.
C6_RejectsPastOnly ==
    [][/\ \A h \in Handlers : AddAccepted(h) => hs'[h].when > now
       /\ replied'.kind = "past" =>
              /\ replied'.id <= now
              /\ UNCHANGED <<reminders, next_id, disk, tmp, tg, msg_seq, hs, issued>>
       /\ \A h \in Handlers :
              (hs[h].pc = "get_sender" /\ hs'[h].pc = "send") =>
                  /\ hs'[h].when >= now + MinScheduleDelay
                  /\ hs[h].when > now + MinScheduleDelay => hs'[h].when = hs[h].when]_vars

\* an add was rejected whose instant equals the current time
C6_Witness == replied.kind = "past" /\ replied.id = now /\ now > 0

\* C7: at every step reminders.json holds the complete previous snapshot or,
\* after a save that ran to its end, the complete new one, never a partial
\* one; a save cut by a crash leaves the file as it was, and the restart loads it.
C7_AtomicSave ==
    [][/\ disk'.kind \in {"absent", "list"}
       /\ disk' # disk =>
              replied'.save = "ok" /\ disk' = ListFile(ValidReminders(reminders'))
       /\ SaveCrashes(replied'.save) =>
              disk' = disk /\ reminders' = LoadItems(disk)]_vars

\* the process was killed between the temp write and the rename of a save, and
\* the restart loaded the previous, non-empty snapshot
C7_Witness ==
    /\ replied.save = "crash_move"
    /\ tmp = "complete"
    /\ disk.kind = "list"
    /\ reminders # <<>>
    /\ reminders = disk.items

\* C8: no success confirmation is sent for an add or a delete whose save failed.
C8_SaveFailureReported ==
    replied.kind \in {"scheduled", "deleted"} => replied.save = "ok"

\* what a successful save followed by a load makes of the collection rems
SaveThenLoad(rems) == LoadItems(DiskAfterSave("ok", disk, rems))

Savable(r) == Has(r, "id") /\ Has(r, "chat_id") /\ Has(r, "scheduled_id")

WellFormed(r) == Has(r, "id") /\ Fields \subseteq DOMAIN r /\ r.wrong = {}

\* C10: whatever the file holds, the load is not fatal, the store is exactly the
\* well-formed records of the file, and the counter is computed from them.
C10_TolerantLoad ==
    [][proc = "down" =>
          /\ proc' = "up"
          /\ reminders' = LoadItems([disk EXCEPT !.items = SelectSeq(disk.items, WellFormed)])
          /\ next_id' = NextIdOf(reminders')]_vars

\* C11: a list result contains a stored reminder only if its due instant is
\* strictly later than the time of the check: a stored reminder due at or before
\* that time is not in the result.
C11_FutureOnly ==
    replied.kind = "list" =>
        \A r \in Range(reminders) :
            FromIsoFormat(r.time) <= now => r.id \notin Range(replied.ids)

\* a list was sent while the store held a reminder due exactly now, left out
C11_Witness ==
    /\ replied.kind = "list"
    /\ \E r \in Range(reminders) :
           FromIsoFormat(r.time) = now /\ r.id \notin Range(replied.ids)

\* C12: across adds, deletes and restarts, an id that schedule_reminder has
\* returned is never returned for a later reminder.
C12_NoIdReuse ==
    [][Len(issued') = Len(issued) + 1 => issued'[Len(issued')] \notin assigned]_vars

\* no two records of the store have the same id, and the counter is above all
C13_IdsDistinctBelowCounter ==
    /\ \A i, j \in 1..Len(reminders) : i # j => reminders[i].id # reminders[j].id
    /\ \A i \in 1..Len(reminders) : reminders[i].id < next_id

\* C13: started on an empty store, in every reachable state no two records of
\* the store have the same id and the counter is greater than every id in the
\* store; and the record of a scheduled message keeps its id over every step.
C13_UniqueStableIds ==
    /\ []C13_IdsDistinctBelowCounter
    /\ [][\A i \in 1..Len(reminders), j \in 1..Len(reminders') :
              reminders[i].scheduled_id = reminders'[j].scheduled_id =>
                  reminders[i].id = reminders'[j].id]_vars

\* two records are in the store of a process that was restarted on them
C13_Witness ==
    /\ Len(reminders) = 2
    /\ issued = <<>>
    /\ next_id = 3

\* C14: when the confirmation of an add is sent, the new record is in the
\* persisted file.
C14_PersistedBeforeConfirm ==
    replied.kind = "scheduled" =>
        \E i \in 1..Len(disk.items) : IdIs(disk.items[i], replied.id)

\* C15: the store never holds a partially written record, also while other
\* handlers are suspended at their awaits, and a list result names exactly the
\* complete records of the store that are due later than the check.
C15_ListSeesWholeRecords ==
    /\ \A r \in Range(reminders) : Fields \subseteq DOMAIN r /\ r.wrong = {}
    /\ replied.kind = "list" =>
           /\ \A i \in 1..Len(replied.ids) :
                  \E r \in Range(reminders) :
                      /\ r.id = replied.ids[i]
                      /\ Fields \subseteq DOMAIN r
           /\ Len(replied.ids) =
                  Cardinality({i \in 1..Len(reminders) : FromIsoFormat(reminders[i].time) > now})

\* a list was sent while a delete of one of the listed reminders was suspended
\* at its await
C15_Witness ==
    /\ replied.kind = "list"
    /\ \E h \in Handlers : hs[h].pc = "cancel" /\ hs[h].rid \in Range(replied.ids)

\* C16: for every text the date parser accepts and that names no offset,
\* parse_dt returns an instant, and it is the text's wall-clock time (with the
\* default time of day where parse_dt puts it in) taken in the display timezone
\* and converted to UTC.
C16_NaiveIsLocalWallClock ==
    (parseOut.done /\ parseIn.ok /\ ~parseIn.aware) =>
        /\ parseOut.res.ok
        /\ LET wall == WallMinutes(parseIn)
               local == IF parseOut.res.defaulted THEN ReplaceTime(wall) ELSE wall
           IN  parseOut.res.utc = local - TzOffset(parseIn.season)

\* C17: parse_dt puts in the default time of day exactly when the text states
\* no time of day and holds no H:MM; a text that states a time of day keeps it.
C17_DefaultIffNoTime ==
    (parseOut.done /\ parseIn.ok) =>
        (parseOut.res.defaulted <=> (~parseIn.statesTime /\ ~parseIn.hasHMM))

\* C18: every handler that is past the check of schedule_reminder carries a UTC
\* datetime and every record in the store has a time with the UTC offset; a
\* call of schedule_reminder with a value that is no UTC datetime is answered
\* with the internal error and changes neither the store, the counter, the file
\* nor Telegram.
C18_UtcOrNothing ==
    /\ [](\A h \in Handlers : hs[h].pc \in {"get_sender", "send"} => hs[h].tz = "utc")
    /\ [](\A r \in Range(reminders) : r.time.offset = "+00:00")
    /\ [][\A h \in Handlers, chat \in Chats, kind \in WhenKinds \ {"utc"}, t \in DueChoices :
              SchedCall(h, chat, [kind |-> kind, t |-> t]) =>
                  /\ replied'.kind = "internal"
                  /\ UNCHANGED <<reminders, next_id, disk, tmp, tg, msg_seq, hs, issued>>]_vars

\* a value that is no UTC datetime was refused while the store held a record
C18_Witness == replied.kind = "internal" /\ reminders # <<>>

\* C19: an add whose text has no prefix parse_dt accepts is answered with the
\* rejection and changes nothing: no scheduled message, no temp directory, no
\* record, and the counter and the file as they were.
C19_UnparsableChangesNothing ==
    [][replied'.kind = "bad_time" =>
          UNCHANGED <<reminders, next_id, disk, tmp, tg, msg_seq, hs, issued, dirs>>]_vars

\* an add was rejected as unparsable while another add was downloading its media
C19_Witness ==
    /\ replied.kind = "bad_time"
    /\ dirs = 1
    /\ \E h \in Handlers : hs[h].pc = "download"

\* C20: the result of a list request made in chat c names only reminders whose
\* chat_id is c.
C20_ListOnlyOwnChat ==
    [][\A h \in Handlers, c \in TwoChats :
          ListRecv(h, c) =>
              \A i \in 1..Len(replied'.ids) :
                  \A r \in Range(reminders) :
                      r.id = replied'.ids[i] => r.chat_id = c]_vars

SendReturns(h) ==
    /\ hs[h].pc = "send"
    /\ hs[h].tmp_dir
    /\ hs'[h].pc = "idle"
    /\ replied'.kind \in {"scheduled", "send_failed"}

\* the step is a download that gave no file to handler h
DownloadGaveNothing(h) ==
    /\ hs[h].pc = "download"
    /\ hs[h].tmp_dir
    /\ replied'.kind = "no_media"

C22_AbsentIdChangesNothing ==
    [][\A h \in Handlers, chat \in Chats, rid \in MsgIds, o \in SaveOutcomes :
          (DelRecv(h, chat, rid, o) /\ rid \notin IdsOf(reminders)) =>
              /\ replied' = Reply("not_found", rid)
              /\ UNCHANGED <<reminders, next_id, disk, tmp, tg, msg_seq, hs,
                             issued, assigned>>]_vars

\* "not found" was answered for an id while the store holds another record
C22_Witness ==
    /\ replied.kind = "not_found"
    /\ reminders # <<>>
    /\ replied.id \notin IdsOf(reminders)

\* C23: a send that raises appends no record, leaves the id counter and the
\* file as they were and is answered with the failure alone; every id handed
\* out is the counter's value at that moment, and while the process runs only
\* a successful add moves the counter, so the next successful add gets the id
\* the failed one would have got.
C23_FailedSendConsumesNoId ==
    [][/\ \A h \in Handlers, e \in SendErrors :
              AddSendFailed(h, e) =>
                  /\ replied' = Reply("send_failed", None)
                  /\ UNCHANGED <<reminders, next_id, disk, tmp, issued, assigned>>
       /\ Len(issued') = Len(issued) + 1 =>
              /\ issued'[Len(issued')] = next_id
              /\ replied'.kind = "scheduled"
              /\ replied'.id = next_id
       /\ next_id' # next_id =>
              \/ Len(issued') = Len(issued) + 1
              \/ issued' = <<>> /\ next_id' = NextIdOf(LoadItems(disk))]_vars

\* a send failed after an add of the same run succeeded, and the counter still
\* stands right after the id of that add
C23_Witness ==
    /\ replied.kind = "send_failed"
    /\ issued # <<>>
    /\ next_id = issued[Len(issued)] + 1

\* C24: a delete whose id is in the store when its cancellation at Telegram
\* returns, cancelled or not, removes the record with that id and confirms the
\* deletion (a process that stops during the save aside).
C24_PresentIdIsRemoved ==
    [][\A h \in Handlers, cancelled \in BOOLEAN, o \in SaveOutcomes :
          (/\ DelStore(h, cancelled, o)
           /\ ~SaveCrashes(o)
           /\ hs[h].rid \in IdsOf(reminders)) =>
              /\ replied' = ReplySaved("deleted", hs[h].rid, o)
              /\ hs[h].rid \notin IdsOf(reminders')]_vars

====
